---- MODULE Spec2Model ----
(***************************************************************************)
(* Linearly-varying vortex panel method (src/lvvp.py, src/main.py).        *)
(*                                                                         *)
(* One module, five state machines over disjoint groups of variables:      *)
(*   SpecPanel   Panel.__init__          (orientation angle and loc tag)   *)
(*   SpecDefine  define_panels           (cosine discretisation)           *)
(*   SpecLhs     lhs_setup               (tangency rows and Kutta row)     *)
(*   SpecKernel  panel_contribution      (branch selection, domain errors) *)
(*   SpecFlow    rhs_setup, lhs_setup, panels_contribution,                *)
(*               airfoil_flow_plot       (what each call writes)           *)
(* A specification leaves the other groups at their idle value.            *)
(***************************************************************************)
EXTENDS Integers, Sequences, FiniteSets, Bags, TLC

VARIABLES
    \* ---- Panel.__init__ ----
    args,        \* the constructor's arguments [xa, za, xb, zb]
    self,        \* the constructed Panel (NoObject before construction)
    \* ---- define_panels ----
    x, z,        \* the geometry arrays (rebound by the closure step)
    Nreq,        \* the N the caller passed
    N,           \* the local N (made even)
    x_ends, z_ends,
    I,           \* the bracketing pointer
    i,           \* the loop index of "for i in range(N)"
    panels,      \* the returned array
    pc,          \* position in define_panels / how the call ended
    advances,    \* number of executions of "I += 1" in this call
    fault,       \* what went wrong in the bracketing search, if anything
    \* ---- lhs_setup ----
    nPanels,     \* len(panels)
    LHS,         \* the matrix being built
    li, lj,      \* the loop indices i and j of lhs_setup
    lpc,         \* position in lhs_setup / how the call ended
    \* ---- panel_contribution ----
    panel,       \* the panel's end-points [xa, za, xb, zb]
    ri,          \* the target point
    DELTA_THRSH, \* the threshold argument
    kres,        \* how the call ended (NoObject before the call)
    \* ---- assembly and field evaluation ----
    f_panels, f_vortices, freestream,     \* the caller's objects
    f_panels0, f_vortices0, freestream0,  \* the same objects before the first call
    f_out,       \* what the last call returned
    f_calls      \* number of calls made

NoObject == <<>>

varsPanel  == <<args, self>>
varsDefine == <<x, z, Nreq, N, x_ends, z_ends, I, i, panels, pc, advances, fault>>
varsLhs    == <<nPanels, LHS, li, lj, lpc>>
varsKernel == <<panel, ri, DELTA_THRSH, kres>>
varsFlow   == <<f_panels, f_vortices, freestream, f_panels0, f_vortices0,
               freestream0, f_out, f_calls>>
vars == <<varsPanel, varsDefine, varsLhs, varsKernel, varsFlow>>

notPanel  == <<varsDefine, varsLhs, varsKernel, varsFlow>>
notDefine == <<varsPanel, varsLhs, varsKernel, varsFlow>>
notLhs    == <<varsPanel, varsDefine, varsKernel, varsFlow>>
notKernel == <<varsPanel, varsDefine, varsLhs, varsFlow>>
notFlow   == <<varsPanel, varsDefine, varsLhs, varsKernel>>

IdlePanel  == args = NoObject /\ self = NoObject
IdleDefine == /\ x = <<>> /\ z = <<>> /\ Nreq = 0 /\ N = 0 /\ x_ends = <<>>
              /\ z_ends = <<>> /\ I = 0 /\ i = 0 /\ panels = <<>>
              /\ pc = "idle" /\ advances = 0 /\ fault = "none"
IdleLhs    == nPanels = 0 /\ LHS = <<>> /\ li = 0 /\ lj = 0 /\ lpc = "idle"
IdleKernel == panel = NoObject /\ ri = <<>> /\ DELTA_THRSH = 0 /\ kres = NoObject
IdleFlow   == /\ f_panels = <<>> /\ f_vortices = <<>> /\ freestream = NoObject
              /\ f_panels0 = <<>> /\ f_vortices0 = <<>> /\ freestream0 = NoObject
              /\ f_out = NoObject /\ f_calls = 0

(***************************************************************************)
(* Arithmetic helpers                                                      *)
(***************************************************************************)
RECURSIVE Pow2(_)
Pow2(k) == IF k <= 0 THEN 1 ELSE 2 * Pow2(k - 1)

Abs(a) == IF a < 0 THEN -a ELSE a

RECURSIVE Gcd(_, _)
Gcd(a, b) == IF b = 0 THEN Abs(a) ELSE Gcd(b, a % b)

(***************************************************************************)
(* Binary floating point, round to nearest, ties to even, with Prec        *)
(* mantissa bits (the program's doubles have 53) and no exponent limits.   *)
(* A non-negative float v is held as the integer v * Unit.                 *)
(***************************************************************************)
Prec == 3
Unit == Pow2(2 * Prec)
ExpSet == 0 .. (4 * Prec + 8)

\* fl(n / d) for integers n >= 0, d > 0, in units
FlRat(n, d) ==
    IF n = 0 THEN 0
    ELSE LET t == n * Unit
             e == CHOOSE k \in ExpSet :
                      /\ Pow2(Prec - 1) * Pow2(k) * d <= t
                      /\ t < Pow2(Prec) * Pow2(k) * d
             den == Pow2(e) * d
             q == t \div den
             r == t % den
             m == IF 2 * r > den \/ (2 * r = den /\ q % 2 = 1) THEN q + 1 ELSE q
         IN  m * Pow2(e)

\* fl(sqrt(v)) for a float v held as k units
FlSqrt(k) ==
    IF k = 0 THEN 0
    ELSE LET w == k * Unit
             e == CHOOSE j \in ExpSet :
                      /\ (Pow2(Prec - 1) * Pow2(j)) * (Pow2(Prec - 1) * Pow2(j)) <= w
                      /\ w < (Pow2(Prec) * Pow2(j)) * (Pow2(Prec) * Pow2(j))
             m == CHOOSE c \in Pow2(Prec - 1) .. (Pow2(Prec) - 1) :
                      /\ (c * Pow2(e)) * (c * Pow2(e)) <= w
                      /\ w < ((c + 1) * Pow2(e)) * ((c + 1) * Pow2(e))
             mid2 == ((2 * m + 1) * Pow2(e)) * ((2 * m + 1) * Pow2(e))
             up == 4 * w > mid2 \/ (4 * w = mid2 /\ m % 2 = 1)
         IN  (IF up THEN m + 1 ELSE m) * Pow2(e)

(***************************************************************************)
(* Panel.__init__  (lvvp.py 120-147)                                       *)
(*                                                                         *)
(* Coordinates are small integers (exactly representable, so xb-xa and     *)
(* zb-za are exact).  An angle is held as [pis, frac]: pis*pi when         *)
(* frac = 0, and some angle strictly between pis*pi and (pis+1)*pi when    *)
(* frac = 1; NaNAngle is the NaN of a zero-length panel.                   *)
(***************************************************************************)
MaxCoord == 4

NaNAngle == [pis |-> -1, frac |-> -1]

\* self.length = math.sqrt((xb-xa)**2 + (zb-za)**2), in units
PanelLength(dx, dz) ==
    FlSqrt(FlRat(FlRat(dx * dx, 1) + FlRat(dz * dz, 1), Unit))

\* num / self.length as a float [nan, v], v in signed units; NaN for 0/0
Quotient(num, len) ==
    IF len = 0 THEN [nan |-> TRUE, v |-> 0]
    ELSE IF num < 0 THEN [nan |-> FALSE, v |-> -FlRat((-num) * Unit, len)]
    ELSE [nan |-> FALSE, v |-> FlRat(num * Unit, len)]

\* math.acos: 0 at 1.0, pi at -1.0, strictly between otherwise, NaN at NaN
Acos(q) ==
    IF q.nan THEN NaNAngle
    ELSE IF q.v = Unit THEN [pis |-> 0, frac |-> 0]
    ELSE IF q.v = -Unit THEN [pis |-> 1, frac |-> 0]
    ELSE [pis |-> 0, frac |-> 1]

\* math.pi + angle
PlusPi(a) == IF a = NaNAngle THEN NaNAngle ELSE [a EXCEPT !.pis = @ + 1]

\* lines 136-139
PanelBeta(dx, dz, len) ==
    IF dx <= 0 THEN Acos(Quotient(dz, len))
    ELSE PlusPi(Acos(Quotient(-dz, len)))

\* angle <= math.pi (False for NaN)
LeqPi(a) == a # NaNAngle /\ (a.pis = 0 \/ (a.pis = 1 /\ a.frac = 0))

\* 0 <= angle < 2*math.pi
InTurn(a) == a # NaNAngle /\ a.pis \in {0, 1}

\* lines 144-147
PanelLoc(beta) == IF LeqPi(beta) THEN "upper" ELSE "lower"

PanelObject(xa, za, xb, zb) ==
    LET len == PanelLength(xb - xa, zb - za)
        beta == PanelBeta(xb - xa, zb - za, len)
    IN  [xa |-> xa, za |-> za, xb |-> xb, zb |-> zb,
         xc2 |-> xa + xb, zc2 |-> za + zb,   \* twice the centre (xc, zc)
         length |-> len, beta |-> beta, loc |-> PanelLoc(beta)]

InitPanel ==
    /\ args \in [xa : 0 .. MaxCoord, za : 0 .. MaxCoord,
                 xb : 0 .. MaxCoord, zb : 0 .. MaxCoord]
    /\ self = NoObject
    /\ IdleDefine /\ IdleLhs /\ IdleKernel /\ IdleFlow

Panel_init ==
    /\ args # NoObject
    /\ self = NoObject
    /\ self' = PanelObject(args.xa, args.za, args.xb, args.zb)
    /\ UNCHANGED <<args, notPanel>>

NextPanel == Panel_init

SpecPanel == InitPanel /\ [][NextPanel]_vars

Constructed == self # NoObject

(***************************************************************************)
(* define_panels  (lvvp.py 150-201), in exact arithmetic.                  *)
(*                                                                         *)
(* The input abscissas x[k] and ordinates z[k] are small integers.  The    *)
(* circle abscissas x_ends are held multiplied by Scale so that the radius *)
(* correction R -= R/10000 and the cosines of the sampled angles stay      *)
(* integral.  An ordinate z_ends[k] is a rational [nan, num, den] in       *)
(* lowest terms with den > 0, NaN, or the not-yet-written cell of          *)
(* numpy.empty_like.  Arrays keep the source's 0-based indices.            *)
(***************************************************************************)
MaxPts == 3
MaxX == 2
MaxZ == 1
MaxN == 4
RadiusShrink == 10000
Scale == 4 * RadiusShrink

At(s, k) == s[k + 1]

SeqsUpTo(S, n) == UNION {[1 .. m -> S] : m \in 0 .. n}

RECURSIVE SeqMax(_)
SeqMax(s) == IF Len(s) = 1 THEN s[1]
             ELSE LET m == SeqMax(Tail(s)) IN IF s[1] > m THEN s[1] ELSE m
RECURSIVE SeqMin(_)
SeqMin(s) == IF Len(s) = 1 THEN s[1]
             ELSE LET m == SeqMin(Tail(s)) IN IF s[1] < m THEN s[1] ELSE m

NaN == [nan |-> TRUE, num |-> 0, den |-> 0]
Unwritten == [nan |-> FALSE, num |-> 0, den |-> 0]
Rat(n, d) == LET g == Gcd(Abs(n), Abs(d))
                 sg == IF d < 0 THEN -1 ELSE 1
             IN  [nan |-> FALSE, num |-> sg * (n \div g), den |-> sg * (d \div g)]

\* the == of two floats: NaN equals nothing, not even itself
FloatEq(a, b) == ~a.nan /\ ~b.nan /\ a = b

\* lines 163-165
EvenizeUp(n) == IF n % 2 = 1 THEN n + 1 ELSE n
Evenize(n) == IF n % 2 = 1 THEN n - 1 ELSE n

\* 2*cos(2*pi*k/n) for the angles numpy.linspace(0, 2*pi, n+1) samples
\* (n = 0 samples the single angle 0); twelfths of a turn with rational cosine
Cos2(n, k) ==
    IF n = 0 THEN 2
    ELSE LET a == (12 * k) \div n
         IN  CASE a \in {0, 12} -> 2
               [] a \in {2, 10} -> 1
               [] a \in {3, 9}  -> 0
               [] a \in {4, 8}  -> -1
               [] a = 6         -> -2

\* lines 167-171, times Scale
XCircle(xs, n, k) ==
    (SeqMax(xs) + SeqMin(xs)) * (2 * RadiusShrink)
        + (SeqMax(xs) - SeqMin(xs)) * (RadiusShrink - 1) * Cos2(n, k)

\* lines 176-182
CloseContour(s, xs) ==
    IF At(xs, 0) < At(xs, Len(xs) - 1) THEN <<At(s, Len(s) - 1)>> \o s
    ELSE IF At(xs, 0) > At(xs, Len(xs) - 1) THEN s \o <<At(s, 0)>>
    ELSE s

\* line 188
Brackets(xs, k, xe) ==
    \/ At(xs, k) * Scale <= xe /\ xe <= At(xs, k + 1) * Scale
    \/ At(xs, k + 1) * Scale <= xe /\ xe <= At(xs, k) * Scale

\* lines 192-194: a = dz/dx (inf or nan when dx = 0), b = z[I+1] - a*x[I+1],
\* a*xe + b; with dx = 0 the result is inf - inf or nan, i.e. NaN
Interpolate(xs, zs, k, xe) ==
    LET dxs == (At(xs, k + 1) - At(xs, k)) * Scale
        dz  == At(zs, k + 1) - At(zs, k)
    IN  IF dxs = 0 THEN NaN
        ELSE Rat(At(zs, k + 1) * dxs + dz * (xe - At(xs, k + 1) * Scale), dxs)

\* lines 197-199: the end-points handed to Panel(...)
MakePanels(xe, ze, n) ==
    [k \in 0 .. (n - 1) |->
        [xa |-> xe[k], za |-> ze[k], xb |-> xe[k + 1], zb |-> ze[k + 1]]]

InitDefine ==
    /\ x \in SeqsUpTo(0 .. MaxX, MaxPts)
    /\ z \in SeqsUpTo(0 .. MaxZ, MaxPts)
    /\ Len(z) = Len(x)
    /\ Nreq \in 0 .. MaxN
    /\ N = Nreq
    /\ x_ends = <<>> /\ z_ends = <<>> /\ panels = <<>>
    /\ I = 0 /\ i = 0 /\ advances = 0 /\ fault = "none"
    /\ pc = "start"
    /\ IdlePanel /\ IdleLhs /\ IdleKernel /\ IdleFlow

\* x.max() on an empty array (line 167)
dp_empty_input ==
    /\ pc = "start" /\ Len(x) = 0
    /\ pc' = "ValueError"
    /\ N' = Evenize(Nreq)
    /\ UNCHANGED <<x, z, Nreq, x_ends, z_ends, I, i, panels, advances, fault, notDefine>>

\* lines 163-185
dp_setup ==
    /\ pc = "start" /\ Len(x) > 0
    /\ N' = Evenize(Nreq)
    /\ x_ends' = [k \in 0 .. N' |-> XCircle(x, N', k)]
    /\ z_ends' = [k \in 0 .. N' |-> Unwritten]
    /\ x' = CloseContour(x, x)
    /\ z' = CloseContour(z, x)
    /\ I' = 0 /\ i' = 0
    /\ pc' = "loop"
    /\ UNCHANGED <<Nreq, panels, advances, fault, notDefine>>

\* line 191
SkipPointer(p) == p + 2
AdvancePointer(p) == p + 1

\* lines 187-191: the else branch, I += 1
dp_advance ==
    /\ pc = "loop" /\ i < N
    /\ I < Len(x) - 1
    /\ ~Brackets(x, I, x_ends[i])
    /\ I' = AdvancePointer(I)
    /\ advances' = advances + 1
    /\ UNCHANGED <<x, z, Nreq, N, x_ends, z_ends, i, panels, pc, fault, notDefine>>

\* the while loop ran out (I = len(x)-1): x[I+1] at line 192 is out of range
dp_index_error ==
    /\ pc = "loop" /\ i < N
    /\ ~(I < Len(x) - 1)
    /\ pc' = "IndexError"
    /\ fault' = "no_bracket"
    /\ UNCHANGED <<x, z, Nreq, N, x_ends, z_ends, I, i, panels, advances, notDefine>>

\* line 189 (break), then lines 192-194 and the next i
dp_interpolate ==
    /\ pc = "loop" /\ i < N
    /\ I < Len(x) - 1
    /\ Brackets(x, I, x_ends[i])
    /\ z_ends' = [z_ends EXCEPT ![i] = Interpolate(x, z, I, x_ends[i])]
    /\ fault' = IF At(x, I + 1) = At(x, I) THEN "not_interpolable" ELSE fault
    /\ i' = i + 1
    /\ UNCHANGED <<x, z, Nreq, N, x_ends, I, panels, pc, advances, notDefine>>

\* lines 195-201
dp_return ==
    /\ pc = "loop" /\ i = N
    /\ z_ends' = [z_ends EXCEPT ![N] = z_ends[0]]
    /\ panels' = MakePanels(x_ends, z_ends', N)
    /\ pc' = "returned"
    /\ UNCHANGED <<x, z, Nreq, N, x_ends, I, i, advances, fault, notDefine>>

NextDefine ==
    \/ dp_empty_input
    \/ dp_setup
    \/ dp_advance
    \/ dp_index_error
    \/ dp_interpolate
    \/ dp_return

SpecDefine == InitDefine /\ [][NextDefine]_vars

Returned == pc = "returned"
Raised == pc \in {"ValueError", "IndexError"}
NPanels == Cardinality(DOMAIN panels)

\* C1: when define_panels returns, the array has exactly N panels for an
\* even request N and N-1 panels for an odd request.
C1_PanelCount ==
    Returned => NPanels = (IF Nreq % 2 = 0 THEN Nreq ELSE Nreq - 1)

C1_Witness == Returned /\ Nreq = 3 /\ NPanels = 2 /\ fault = "none"

\* C2: in every returned array with at least one panel, panel k's second
\* end-point equals panel k+1's first end-point, and the last panel's second
\* end-point equals the first panel's first end-point, in x and in z.
C2_ClosedChain ==
    (Returned /\ NPanels >= 1) =>
        /\ \A k \in 0 .. (NPanels - 2) :
              /\ panels[k].xb = panels[k + 1].xa
              /\ FloatEq(panels[k].zb, panels[k + 1].za)
        /\ panels[NPanels - 1].xb = panels[0].xa
        /\ FloatEq(panels[NPanels - 1].zb, panels[0].za)

\* the same chain on the runs in which every bracketing segment could be
\* interpolated
ClosedChainWhenInterpolable == (fault = "none") => C2_ClosedChain

\* C5: a search that finds no bracketing segment, or a bracketing segment
\* that cannot be interpolated, is signalled to the caller as an error; no
\* array is returned after either.
C5_GeometryErrorSignalled ==
    /\ (fault # "none") => ~Returned
    /\ (fault # "none" /\ pc # "loop") => Raised

\* define_panels runs to its end without interruption
SpecDefineFair == SpecDefine /\ WF_vars(NextDefine)

Ended == Returned \/ Raised

\* what is left to do: loop indices still to visit plus pointer positions left
Variant ==
    CASE pc = "start" -> Nreq + Len(x) + 2
      [] pc = "loop"  -> (N - i) + (Len(x) - 1 - I) + 1
      [] OTHER        -> 0

\* C10: define_panels terminates on every input: the pointer I never moves
\* back and is never reset, it never exceeds len(x)-1 (x the closed
\* polyline), at most len(x)-1 advances happen in the whole call, and the
\* call ends by returning the array or by raising.
C10_Termination ==
    /\ [](pc \in {"loop", "returned", "IndexError"} =>
            /\ I <= Len(x) - 1
            /\ advances <= Len(x) - 1
            /\ I = advances)
    /\ [](~Ended => ENABLED NextDefine)
    /\ [][I' >= I /\ Variant' < Variant]_vars
    /\ <>Ended

C10_Witness == Returned /\ advances >= 1 /\ I = advances /\ NPanels = 4

(***************************************************************************)
(* lhs_setup  (lvvp.py 204-225)                                            *)
(*                                                                         *)
(* The influence values are transcendental, so a matrix cell is held as    *)
(* what was written into it: a constant plus the bag of the terms added.   *)
(* The term [at |-> r, of |-> c, end |-> e] stands for                     *)
(*   numpy.dot(n_r, panel_contribution(panels[c], r_r, 1.0, 0.0))  e = "a" *)
(*   numpy.dot(n_r, panel_contribution(panels[c], r_r, 0.0, 1.0))  e = "b" *)
(* the unit-strength influence of panel c's first (a) or second (b)        *)
(* end-point at panel r's centre, projected on panel r's normal.           *)
(***************************************************************************)
MaxPanels == 6

Zero == [const |-> 0, terms |-> EmptyBag]
One  == [const |-> 1, terms |-> EmptyBag]
Term(r, c, e) == [at |-> r, of |-> c, end |-> e]

\* LHS[r, c] += term
AddTo(m, r, c, t) ==
    [m EXCEPT ![r][c] = [@ EXCEPT !.terms = @ (+) SetToBag({t})]]

\* the column of the second accumulation (line 221)
SameColumn(c) == c
SecondColumn(c) == c + 1

\* the columns the Kutta row sets to 1 (line 223)
KuttaColumnsShort(n) == {0, n - 1}
KuttaColumns(n) == {0, n}

InitLhs ==
    /\ nPanels \in 0 .. MaxPanels
    /\ LHS = <<>> /\ li = 0 /\ lj = 0
    /\ lpc = "start"
    /\ IdlePanel /\ IdleDefine /\ IdleKernel /\ IdleFlow

\* lines 208-210
lhs_alloc ==
    /\ lpc = "start"
    /\ LHS' = [r \in 0 .. nPanels |-> [c \in 0 .. nPanels |-> Zero]]
    /\ li' = 0 /\ lj' = 0
    /\ lpc' = IF nPanels = 0 THEN "kutta" ELSE "first"
    /\ UNCHANGED <<nPanels, notLhs>>

\* lines 218-219
lhs_first ==
    /\ lpc = "first"
    /\ LHS' = AddTo(LHS, li, lj, Term(li, lj, "a"))
    /\ lpc' = "second"
    /\ UNCHANGED <<nPanels, li, lj, notLhs>>

\* lines 220-221, then the next j, or the next i
lhs_second ==
    /\ lpc = "second"
    /\ LHS' = AddTo(LHS, li, SecondColumn(lj), Term(li, lj, "b"))
    /\ IF lj + 1 < nPanels
         THEN lj' = lj + 1 /\ li' = li /\ lpc' = "first"
         ELSE /\ lj' = 0 /\ li' = li + 1
              /\ lpc' = IF li + 1 < nPanels THEN "first" ELSE "kutta"
    /\ UNCHANGED <<nPanels, notLhs>>

\* panel_contribution raises (the centre of panel i is an end-point of
\* panel j): the exception leaves lhs_setup, nothing is returned
lhs_kernel_error ==
    /\ lpc \in {"first", "second"}
    /\ lpc' = "raised"
    /\ UNCHANGED <<nPanels, LHS, li, lj, notLhs>>

\* lines 223-225
lhs_kutta ==
    /\ lpc = "kutta"
    /\ LHS' = [LHS EXCEPT ![nPanels] =
                  [c \in 0 .. nPanels |->
                      IF c \in KuttaColumns(nPanels) THEN One ELSE @[c]]]
    /\ lpc' = "returned"
    /\ UNCHANGED <<nPanels, li, lj, notLhs>>

NextLhs ==
    \/ lhs_alloc
    \/ lhs_first
    \/ lhs_second
    \/ lhs_kernel_error
    \/ lhs_kutta

SpecLhs == InitLhs /\ [][NextLhs]_vars

LhsReturned == lpc = "returned"
Allocated == lpc \notin {"idle", "start"}
NonZeroCols(r) == {c \in 0 .. nPanels : LHS[r][c] # Zero}

\* C3 as stated: for every even N, the smallest included, row N of the
\* returned matrix has exactly two nonzero entries, in columns 0 and N, each
\* 1, and tangency accumulation never writes into row N.
C3_KuttaRowTwoEntries ==
    /\ (LhsReturned /\ nPanels % 2 = 0) =>
          /\ Cardinality(NonZeroCols(nPanels)) = 2
          /\ NonZeroCols(nPanels) = {0, nPanels}
          /\ LHS[nPanels][0] = One /\ LHS[nPanels][nPanels] = One
    /\ (Allocated /\ ~LhsReturned) => NonZeroCols(nPanels) = {}

\* C3 amended: the same for every even N >= 2; for N = 0 the matrix is 1x1,
\* columns 0 and N are the same cell, and the row has the single entry 1.
C3_KuttaRow ==
    /\ (LhsReturned /\ nPanels % 2 = 0 /\ nPanels >= 2) =>
          /\ Cardinality(NonZeroCols(nPanels)) = 2
          /\ NonZeroCols(nPanels) = {0, nPanels}
          /\ LHS[nPanels][0] = One /\ LHS[nPanels][nPanels] = One
    /\ (LhsReturned /\ nPanels = 0) =>
          /\ DOMAIN LHS = {0} /\ DOMAIN LHS[0] = {0}
          /\ LHS[0][0] = One
    /\ (Allocated /\ ~LhsReturned) => NonZeroCols(nPanels) = {}

C3_Witness == LhsReturned /\ nPanels = 4 /\ NonZeroCols(4) = {0, 4}

\* the terms the claim expects in tangency row r, column c
ExpectedTerms(r, c) ==
    IF c = 0 THEN SetToBag({Term(r, 0, "a")})
    ELSE IF c = nPanels THEN SetToBag({Term(r, nPanels - 1, "b")})
    ELSE SetToBag({Term(r, c, "a"), Term(r, c - 1, "b")})

\* C4: in every tangency row i < N of the returned matrix, column 0 holds only
\* panel 0's first-end-point influence, column N only panel N-1's
\* second-end-point influence, and each interior column j panel j's
\* first-end-point influence plus panel j-1's second-end-point influence,
\* each once (every pair visited exactly once), and nothing else is written.
C4_ColumnContributions ==
    LhsReturned =>
        \A r \in 0 .. (nPanels - 1) : \A c \in 0 .. nPanels :
            /\ LHS[r][c].const = 0
            /\ LHS[r][c].terms = ExpectedTerms(r, c)

C4_Witness ==
    /\ LhsReturned /\ nPanels = 4
    /\ LHS[2][3].terms = SetToBag({Term(2, 3, "a"), Term(2, 2, "b")})

(***************************************************************************)
(* panel_contribution  (lvvp.py 244-387), in exact arithmetic.             *)
(*                                                                         *)
(* End-points and target are integer points.  The twelve antiderivative    *)
(* values are transcendental; what is modelled of them is how their        *)
(* evaluation ends: a math.log or math.sqrt outside its domain raises      *)
(* ValueError, a division of two Python floats by zero raises              *)
(* ZeroDivisionError, and a division by zero that involves a numpy scalar  *)
(* (A, B, P and delta are numpy.float64) only yields inf or nan.  The      *)
(* strengths gj, gj1 scale the terms after they are evaluated and do not   *)
(* change how the call ends.  Thresholds are multiples of 4 because delta  *)
(* is one for integer points.                                              *)
(***************************************************************************)
MaxK == 2
DefaultThrsh == 0
Thresholds == {-4, DefaultThrsh, 4}

Dot(u, v) == u[1] * v[1] + u[2] * v[2]
Sub(u, v) == <<u[1] - v[1], u[2] - v[2]>>

k_rj(p)  == <<p.xa, p.za>>
k_rj1(p) == <<p.xb, p.zb>>
\* lines 253-258
k_Aji(p, t) == Sub(t, k_rj(p))
k_Bj(p)     == Sub(k_rj(p), k_rj1(p))
k_P(p, t)   == 2 * Dot(k_Aji(p, t), k_Bj(p))
k_A(p, t)   == Dot(k_Aji(p, t), k_Aji(p, t))
k_B(p)      == Dot(k_Bj(p), k_Bj(p))
k_delta(p, t) == 4 * k_A(p, t) * k_B(p) - k_P(p, t) * k_P(p, t)

\* lines 259-261
StrictConvergence(d, thr) == ~(d < thr)
DeltaConvergence(d, thr) == ~(d <= thr)

\* math.log(v) raises ValueError outside its domain
LogNeverRaises(v) == FALSE
MathLogRaises(v) == v <= 0

\* lines 264-309 as evaluated by lines 361-371: Fji(A,B,P,1) comes first;
\* line 266 takes math.sqrt(delta), line 267 divides the Python float
\* 2*math.atan(...) by the Python float math.sqrt(delta), line 268 takes
\* math.log(A+x*(B*x+P)); then the same at x = 0
RegularOutcome(a, b, pp, d) ==
    IF d < 0 THEN "ValueError"
    ELSE IF d = 0 THEN "ZeroDivisionError"
    ELSE IF MathLogRaises(a + b + pp) \/ MathLogRaises(a) THEN "ValueError"
    ELSE IF b = 0 THEN "nonfinite"
    ELSE "finite"

\* lines 312-355 as evaluated by lines 375-385: Fji0(A,B,P,1) comes first;
\* lines 314-315 divide numpy scalars, line 316 takes
\* math.log(math.fabs(2*B*x+P)); then the same at x = 0
DegenerateOutcome(b, pp) ==
    IF MathLogRaises(Abs(2 * b + pp)) \/ MathLogRaises(Abs(pp)) THEN "ValueError"
    ELSE IF b = 0 THEN "nonfinite"
    ELSE "finite"

PanelEnds == [xa : 0 .. MaxK, za : 0 .. MaxK, xb : 0 .. MaxK, zb : 0 .. MaxK]

InitKernel ==
    /\ panel \in PanelEnds
    /\ ri \in (0 .. MaxK) \X (0 .. MaxK)
    /\ DELTA_THRSH \in Thresholds
    /\ kres = NoObject
    /\ IdlePanel /\ IdleDefine /\ IdleLhs /\ IdleFlow

\* lines 358-371
kernel_regular ==
    /\ kres = NoObject /\ panel # NoObject
    /\ DeltaConvergence(k_delta(panel, ri), DELTA_THRSH)
    /\ kres' = [delta |-> k_delta(panel, ri), branch |-> "regular",
                outcome |-> RegularOutcome(k_A(panel, ri), k_B(panel),
                                           k_P(panel, ri), k_delta(panel, ri))]
    /\ UNCHANGED <<panel, ri, DELTA_THRSH, notKernel>>

\* lines 372-385
kernel_degenerate ==
    /\ kres = NoObject /\ panel # NoObject
    /\ ~DeltaConvergence(k_delta(panel, ri), DELTA_THRSH)
    /\ kres' = [delta |-> k_delta(panel, ri), branch |-> "degenerate",
                outcome |-> DegenerateOutcome(k_B(panel), k_P(panel, ri))]
    /\ UNCHANGED <<panel, ri, DELTA_THRSH, notKernel>>

NextKernel ==
    \/ kernel_regular
    \/ kernel_degenerate

SpecKernel == InitKernel /\ [][NextKernel]_vars

Called == kres # NoObject
PositiveLength == k_rj(panel) # k_rj1(panel)
AtEndPoint == ri = k_rj(panel) \/ ri = k_rj1(panel)
KernelRaised == kres.outcome \in {"ValueError", "ZeroDivisionError"}

\* the target is collinear with the panel's two end-points
OnSupportingLine ==
    (ri[1] - panel.xa) * (panel.zb - panel.za)
        = (ri[2] - panel.za) * (panel.xb - panel.xa)

AtCentre == 2 * ri[1] = panel.xa + panel.xb /\ 2 * ri[2] = panel.za + panel.zb

\* C6: for a panel of positive length and a target that is exactly one of
\* its end-points, panel_contribution raises, whichever branch is selected;
\* it never returns a velocity for such a point.
C6_EndPointRaises ==
    (Called /\ PositiveLength /\ AtEndPoint) => KernelRaised

C6_Witness ==
    /\ Called /\ PositiveLength /\ ri = k_rj1(panel)
    /\ DELTA_THRSH = DefaultThrsh
    /\ kres.branch = "degenerate" /\ kres.outcome = "ValueError"

\* C8: the degenerate families are evaluated exactly when
\* delta = 4AB - P^2 <= threshold and the regular ones exactly when
\* delta > threshold; with the default threshold 0, delta is never negative
\* and the degenerate branch is taken exactly when the target lies on the
\* panel's supporting line, the panel's own centre included.
C8_BranchSelection ==
    Called =>
        /\ (kres.branch = "degenerate") <=> (kres.delta <= DELTA_THRSH)
        /\ (kres.branch = "regular") <=> (kres.delta > DELTA_THRSH)
        /\ DELTA_THRSH = DefaultThrsh =>
              /\ kres.delta >= 0
              /\ (kres.branch = "degenerate") <=> OnSupportingLine
              /\ AtCentre => kres.branch = "degenerate"

C8_Witness ==
    /\ Called /\ DELTA_THRSH = DefaultThrsh /\ PositiveLength
    /\ AtCentre /\ kres.branch = "degenerate" /\ kres.outcome = "finite"

(***************************************************************************)
(* Assembly and field evaluation as a caller sees them (main.py 15-24):    *)
(* rhs_setup, lhs_setup, panels_contribution and airfoil_flow_plot called  *)
(* in any order on the same panels, strengths and Freestream object.       *)
(*                                                                         *)
(* A Python object is the function from its attribute names to their       *)
(* values.  Panels are axis-aligned so that their normals are integral,    *)
(* alpha is a number of quarter turns so that its cosine and sine are.     *)
(* The mesh grid is GridN x GridN points (15 x 15 in airfoil_flow_plot),   *)
(* addressed by index.  What lhs_setup and the kernel compute is modelled  *)
(* in SpecLhs and SpecKernel; here a returned array is held by its shape   *)
(* and the strengths that entered it.                                      *)
(***************************************************************************)
MaxV == 2
MaxGamma == 1
MaxCalls == 3
GridN == 2

Grid == (0 .. (GridN - 1)) \X (0 .. (GridN - 1))

Cos4(q) == CASE q = 0 -> 1 [] q = 1 -> 0 [] q = 2 -> -1 [] q = 3 -> 0
Sin4(q) == CASE q = 0 -> 0 [] q = 1 -> 1 [] q = 2 -> 0 [] q = 3 -> -1

Sign(a) == IF a > 0 THEN 1 ELSE IF a < 0 THEN -1 ELSE 0

\* Panel(xa, za, xb, zb) for an axis-aligned panel (lines 128-147):
\* (nx, nz) = (cos beta, sin beta)
FlowPanel(xa, za, xb, zb) ==
    [xa |-> xa, za |-> za, xb |-> xb, zb |-> zb,
     nx |-> IF xb = xa THEN Sign(zb - za) ELSE 0,
     nz |-> IF xb = xa THEN 0 ELSE IF xb < xa THEN 1 ELSE -1,
     loc |-> IF xb <= xa THEN "upper" ELSE "lower"]

Flat2 == <<FlowPanel(1, 0, 0, 0), FlowPanel(0, 0, 1, 0)>>
Square4 == <<FlowPanel(1, 0, 1, 1), FlowPanel(1, 1, 0, 1),
             FlowPanel(0, 1, 0, 0), FlowPanel(0, 0, 1, 0)>>
PanelArrays == {<<>>, Flat2, Square4}

\* Freestream.__init__ (lines 8-10)
FreestreamObject(v, a) == [v_inf |-> v, alpha |-> a]

\* Freestream.velocity (lines 12-14): the arrays are stored on the object
FreestreamVelocityClobber(fs, grid) ==
    [v_inf |-> fs.v_inf * Cos4(fs.alpha), alpha |-> fs.alpha]
FreestreamVelocity(fs, grid) ==
    [u |-> [g \in grid |-> fs.v_inf * Cos4(fs.alpha)],
     w |-> [g \in grid |-> fs.v_inf * Sin4(fs.alpha)]] @@ fs

\* rhs_setup (lines 232-242)
RhsVector(ps, fs) ==
    LET u == fs.v_inf * Cos4(fs.alpha)
        w == fs.v_inf * Sin4(fs.alpha)
    IN  [r \in 0 .. Len(ps) |->
            IF r < Len(ps) THEN -u * ps[r + 1].nx - w * ps[r + 1].nz ELSE 0]

\* panels_contribution (lines 395-414): per grid point, the strengths
\* (vortices[k], vortices[k+1]) handed to panel_contribution for each panel
FieldTerms(ps, gs, grid) ==
    [g \in grid |-> [k \in 0 .. (Len(ps) - 1) |-> <<gs[k + 1], gs[k + 2]>>]]

InitFlow ==
    /\ f_panels \in PanelArrays
    /\ f_vortices \in [1 .. (Len(f_panels) + 1) -> 0 .. MaxGamma]
    /\ freestream \in {FreestreamObject(v, a) : v \in 1 .. MaxV, a \in 0 .. 3}
    /\ f_panels0 = f_panels
    /\ f_vortices0 = f_vortices
    /\ freestream0 = freestream
    /\ f_out = NoObject
    /\ f_calls = 0
    /\ IdlePanel /\ IdleDefine /\ IdleLhs /\ IdleKernel

Frame == UNCHANGED <<f_panels0, f_vortices0, freestream0, notFlow>>

call_rhs_setup ==
    /\ f_calls < MaxCalls /\ f_calls' = f_calls + 1
    /\ f_out' = [fn |-> "rhs_setup", raised |-> FALSE,
                 value |-> RhsVector(f_panels, freestream)]
    /\ UNCHANGED <<f_panels, f_vortices, freestream>>
    /\ Frame

\* lines 204-225; raises when a panel centre is another panel's end-point
call_lhs_setup ==
    /\ f_calls < MaxCalls /\ f_calls' = f_calls + 1
    /\ \E r \in BOOLEAN :
          f_out' = [fn |-> "lhs_setup", raised |-> r,
                    value |-> IF r THEN <<>>
                              ELSE <<Len(f_panels) + 1, Len(f_panels) + 1>>]
    /\ UNCHANGED <<f_panels, f_vortices, freestream>>
    /\ Frame

\* lines 390-414; raises when a grid point is a panel's end-point
call_panels_contribution ==
    /\ f_calls < MaxCalls /\ f_calls' = f_calls + 1
    /\ \E r \in BOOLEAN :
          f_out' = [fn |-> "panels_contribution", raised |-> r,
                    value |-> IF r THEN <<>>
                              ELSE FieldTerms(f_panels, f_vortices, Grid)]
    /\ UNCHANGED <<f_panels, f_vortices, freestream>>
    /\ Frame

\* airfoil_flow_plot through line 443: panels_contribution returned, then
\* freestream.velocity(X, Y) and the sums u_flow, w_flow (plotted, not returned)
call_airfoil_flow_plot ==
    /\ f_calls < MaxCalls /\ f_calls' = f_calls + 1
    /\ Len(f_panels) > 0
    /\ freestream' = FreestreamVelocity(freestream, Grid)
    /\ f_out' = [fn |-> "airfoil_flow_plot", raised |-> FALSE, value |-> <<>>]
    /\ UNCHANGED <<f_panels, f_vortices>>
    /\ Frame

\* airfoil_flow_plot leaving by an exception before line 441: min() of no
\* panels at line 420, or panels_contribution raising at line 440
call_airfoil_flow_plot_raises ==
    /\ f_calls < MaxCalls /\ f_calls' = f_calls + 1
    /\ f_out' = [fn |-> "airfoil_flow_plot", raised |-> TRUE, value |-> <<>>]
    /\ UNCHANGED <<f_panels, f_vortices, freestream>>
    /\ Frame

NextFlow ==
    \/ call_rhs_setup
    \/ call_lhs_setup
    \/ call_panels_contribution
    \/ call_airfoil_flow_plot
    \/ call_airfoil_flow_plot_raises

SpecFlow == InitFlow /\ [][NextFlow]_vars

C9_OrientationClaim ==
    (Constructed /\ self.length > 0) =>
        /\ InTurn(self.beta)
        /\ (self.loc = "upper") <=> LeqPi(self.beta)
        /\ (self.loc = "upper") <=> (self.xb <= self.xa)
        /\ (self.loc = "lower") <=> (self.xb > self.xa)

====
